---- MODULE Spec2Model ----
(***************************************************************************)
(* Model of pkg/discovery/grpcresolver/grpc_resolver.go: a gRPC resolver   *)
(* that is fed membership snapshots by a discovery Notifier, selects a     *)
(* bounded subset of the backends by rendezvous hashing and publishes it   *)
(* to the gRPC client connection.                                          *)
(***************************************************************************)
EXTENDS Integers, Sequences, FiniteSets, TLC

(***************************************************************************)
(* Bounds of the model.                                                    *)
(***************************************************************************)
\* longest address list handed to rendezvousHash when it is checked alone
MaxHashLen == 3
\* largest connectionPerHost
MaxK == 2
\* number of calls made on the Resolver and its Notifier: Build calls, Close
\* calls, ResolveNow calls and membership changes together
MaxCalls == 4
\* latest reading of the clock, and number of Resolvers constructed in one process
MaxNow == 3
MaxResolvers == 3

(***************************************************************************)
(* Values.                                                                 *)
(***************************************************************************)
None == "none"

\* Instance addresses (host:port).  Under the salt "7" the 32-bit FNV-1
\* scores of "gvu:9" and "ldzg:0" are equal (184508043).
Addrs == {"gvu:9", "ldzg:0"}
HashAddrs == Addrs \cup {"a:1", "b:2"}

\* a membership of seven backends, the shortest list on which sort.Sort runs
\* its pass of gap 6; under the salt "7" the five other addresses score
\* higher than "gvu:9" and "ldzg:0"
Pool == <<"a:1", "ldzg:0", "b:2", "c:3", "d:4", "e:5", "gvu:9">>

\* []byte(address)
Bytes(address) ==
    CASE address = "gvu:9"  -> <<103, 118, 117, 58, 57>>
      [] address = "ldzg:0" -> <<108, 100, 122, 103, 58, 48>>
      [] address = "a:1"    -> <<97, 58, 49>>
      [] address = "b:2"    -> <<98, 58, 50>>
      [] address = "c:3"    -> <<99, 58, 51>>
      [] address = "d:4"    -> <<100, 58, 52>>
      [] address = "e:5"    -> <<101, 58, 53>>
      [] OTHER              -> <<>>

\* the digit strconv.FormatInt writes for d: '0'..'9', 'a'..'z'
Digit(d) == IF d < 10 THEN 48 + d ELSE 87 + d

\* strconv.FormatInt(n, base) for n >= 0, as bytes
RECURSIVE FormatInt(_, _)
FormatInt(n, base) ==
    IF n < base THEN <<Digit(n)>>
    ELSE Append(FormatInt(n \div base, base), Digit(n % base))

\* rand.New(rand.NewSource(seed)).Int63(): the first value of the generator is
\* a fixed function of the seed (here one that gives 7 and 42 for the seeds 1
\* and 2)
Int63(seed) == (35 * seed) - 28

\* the readings of time.Now().UnixNano() a Resolver is constructed at
Seeds == {1, 2}

\* []byte(strconv.FormatInt(random.Int63(), 10)): "7" and "42"
Salts == {FormatInt(Int63(seed), 10) : seed \in Seeds}

\* the errors Discoverer.Instances() may return
Errors == {"errA", "errB"}

\* all lists of distinct addresses of S with at most n elements
ListsOf(S, n) ==
    UNION {{s \in [1..k -> S] : \A i, j \in 1..k : i /= j => s[i] /= s[j]} : k \in 0..n}

\* the list with its i-th element removed
Without(list, i) == [j \in 1..(Len(list) - 1) |-> IF j < i THEN list[j] ELSE list[j + 1]]

\* the membership after one backend joined (at the end) or left
Changes(list) ==
    {Append(list, a) : a \in {b \in Addrs : \A i \in 1..Len(list) : list[i] /= b}}
        \cup {Without(list, i) : i \in 1..Len(list)}

Min(a, b) == IF a < b THEN a ELSE b

\* the addresses of a list, as a set
Range(list) == {list[i] : i \in 1..Len(list)}

\* the list started at its (n+1)-th element, the elements before it moved to the end
Rotate(list, n) ==
    [i \in 1..Len(list) |-> list[((i + n - 1) % Len(list)) + 1]]

(***************************************************************************)
(* hash/fnv New32: 32-bit FNV-1.  A uint32 is kept as <<high 16 bits, low  *)
(* 16 bits>> so that every product stays below 2^31.                       *)
(***************************************************************************)
RECURSIVE Xor(_, _, _)
Xor(a, b, bits) ==
    IF bits = 0 THEN 0
    ELSE (((a % 2) + (b % 2)) % 2) + (2 * Xor(a \div 2, b \div 2, bits - 1))

\* hasher.Reset(): the FNV offset basis 0x811c9dc5
Reset == <<33052, 40389>>

\* one byte: hash *= 0x01000193 (mod 2^32); hash ^= b
WriteByte(h, b) ==
    LET low  == h[2] * 403
        lo   == low % 65536
        hi   == ((h[1] * 403) + (h[2] * 256) + (low \div 65536)) % 65536
    IN  <<hi, (lo - (lo % 256)) + Xor(lo % 256, b, 8)>>

\* hasher.Write(p)
RECURSIVE Write(_, _)
Write(h, p) ==
    IF p = <<>> THEN h ELSE Write(WriteByte(h, Head(p)), Tail(p))

\* hasher.Sum32()
Sum32(h) == h

\* hashAddr without hasher.Reset(): the key and the node are written on top of
\* whatever the shared hash object holds
hashAddrNoReset(hasher, node, key) ==
    LET h == Write(Write(hasher, key), node)
    IN  [sum |-> Sum32(h), hasher |-> h]

\* hashAddr: the hasher is reset, fed the key (salt) and the node (address);
\* hasher is the state the shared hash object is in before the call.
hashAddr(hasher, node, key) ==
    LET h == Write(Write(Reset, key), node)
    IN  [sum |-> Sum32(h), hasher |-> h]

\* uint32 comparison s[i].score < s[j].score
Less(x, y) ==
    \/ x.score[1] < y.score[1]
    \/ x.score[1] = y.score[1] /\ x.score[2] < y.score[2]

(***************************************************************************)
(* sort.Sort for at most 12 elements: one pass of gap 6 followed by an     *)
(* insertion sort (a list shorter than 7 gets the insertion sort alone).   *)
(***************************************************************************)
Swap(s, i, j) == [s EXCEPT ![i] = s[j], ![j] = s[i]]

RECURSIVE ShellPass(_, _)
ShellPass(s, i) ==
    IF i > Len(s) THEN s
    ELSE ShellPass(IF Less(s[i], s[i - 6]) THEN Swap(s, i, i - 6) ELSE s, i + 1)

\* for j := i; j > a && data.Less(j, j-1); j-- { data.Swap(j, j-1) }
RECURSIVE SiftDown(_, _)
SiftDown(s, j) ==
    IF j > 1 /\ Less(s[j], s[j - 1]) THEN SiftDown(Swap(s, j, j - 1), j - 1) ELSE s

RECURSIVE insertionSort(_, _)
insertionSort(s, i) ==
    IF i > Len(s) THEN s ELSE insertionSort(SiftDown(s, i), i + 1)

Sort(s) == insertionSort(ShellPass(s, 7), 2)

(***************************************************************************)
(* rendezvousHash.  The result records the slice returned, the run-time    *)
(* panic the call ends in instead (None when it returns) and the state the *)
(* hasher is left in.                                                      *)
(***************************************************************************)
\* the loop over addresses: hosts = append(hosts, hostScore{address, hashAddr(...)})
RECURSIVE hostScores(_, _, _, _)
hostScores(addresses, salt, hasher, hosts) ==
    IF addresses = <<>> THEN [hosts |-> hosts, hasher |-> hasher]
    ELSE LET h == hashAddr(hasher, Bytes(Head(addresses)), salt)
         IN  hostScores(Tail(addresses), salt, h.hasher,
                        Append(hosts, [address |-> Head(addresses), score |-> h.sum]))

\* rendezvousHash returning every host, sorted, without the cut at connectionPerHost
rendezvousHashAll(addresses, salt, hasher, connectionPerHost) ==
    LET scored == hostScores(addresses, salt, hasher, <<>>)
        hosts  == Sort(scored.hosts)
    IN  [out    |-> [i \in 1..Len(hosts) |-> hosts[i].address],
         panic  |-> None,
         hasher |-> scored.hasher]

\* rendezvousHash with the copy loop stopped at len(hosts): the slots of the
\* result beyond it keep the empty string
rendezvousHashPadded(addresses, salt, hasher, connectionPerHost) ==
    LET scored == hostScores(addresses, salt, hasher, <<>>)
        hosts  == Sort(scored.hosts)
    IN  IF connectionPerHost < 0
        THEN [out |-> <<>>, panic |-> "makeslice: len out of range",
              hasher |-> scored.hasher]
        ELSE [out    |-> [i \in 1..connectionPerHost |->
                             IF i <= Len(hosts) THEN hosts[i].address ELSE ""],
              panic  |-> None,
              hasher |-> scored.hasher]

rendezvousHash(addresses, salt, hasher, connectionPerHost) ==
    LET scored == hostScores(addresses, salt, hasher, <<>>)
        hosts  == Sort(scored.hosts)
    IN  IF connectionPerHost < 0
        THEN \* make([]string, connectionPerHost)
             [out |-> <<>>, panic |-> "makeslice: len out of range",
              hasher |-> scored.hasher]
        ELSE IF connectionPerHost > Len(hosts)
        THEN \* hosts[i] with i = len(hosts)
             [out |-> <<>>, panic |-> "index out of range",
              hasher |-> scored.hasher]
        ELSE [out    |-> [i \in 1..connectionPerHost |-> hosts[i].address],
              panic  |-> None,
              hasher |-> scored.hasher]

\* generateAddresses: one resolver.Address{Addr: instance} per instance
generateAddresses(instances) ==
    [i \in 1..Len(instances) |-> [Addr |-> instances[i]]]


(***************************************************************************)
(* The Resolver.                                                           *)
(***************************************************************************)
\* make(chan []string, 100)
ChanCap == 100

Watchers == 1..MaxCalls
Closers  == 1..MaxCalls

VARIABLES
    connectionPerHost, \* r.connectionPerHost
    salt,              \* r.salt
    scheme,            \* r.scheme
    now,               \* the reading of the clock, time.Now().UnixNano()
    registry,          \* the resolver registry of grpc: scheme -> Resolver registered
    resolvers,         \* the Resolvers New has constructed in this process, in order
    nows,              \* the number of ResolveNow calls made
    hasher,            \* r.hasher: the state of the shared hash object
    cc,                \* r.cc: the connection handle of the latest Build (0: nil)
    discoCh,           \* r.discoCh: the snapshots buffered in the channel
    closed,            \* whether r.discoCh has been closed
    registered,        \* whether r.discoCh is registered with the Notifier
    mu,                \* r.mu: the watcher holding the lock (0: unlocked)
    wg,                \* r.wg: the WaitGroup counter
    wpc,               \* the place each watcher goroutine is at
    wsnap,             \* latestHostPorts of each watcher
    wlate,             \* whether the watcher was started after a Close had returned
    bpc,               \* the place the running Build call is at
    builds,            \* the number of Build calls made
    instances,         \* the instances the running Build got from the Discoverer
    returns,           \* what the Build calls returned, in order
    discovered,        \* what the calls of Discoverer.Instances() returned, in order
    cpc,               \* the place each Close call is at
    panicked,          \* the run-time panic that ended the process (None: running)
    updates,           \* the cc.UpdateState calls made, in order
    received,          \* the snapshots the watchers received, in order
    logs,              \* the logger.Info entries, in order
    sent,              \* the number of snapshots the Notifier sent
    members,           \* the membership the discovery backend knows
    call,              \* the address list rendezvousHash was called with on its own
                       \* and the state the hasher was in before that call (and,
                       \* where memberships follow each other, the list and the
                       \* result of the call before)
    ret                \* the result of the latest such call

\* what New sets and no method of the Resolver assigns
fixed == <<connectionPerHost, salt, scheme, now, registry, resolvers>>

vars == <<fixed, nows, hasher, cc, discoCh, closed, registered, mu, wg,
          wpc, wsnap, wlate, bpc, builds, instances, returns, discovered, cpc,
          panicked, updates, received, logs, sent, members, call, ret>>

resolverVars == <<fixed, nows, cc, discoCh, closed, registered, mu, wg,
                  wpc, wsnap, wlate, bpc, builds, instances, returns, discovered,
                  cpc, panicked, updates, received, logs, sent, members>>

\* what New records of the Resolver it constructs at clock reading seed; taken
\* tells whether the scheme was registered already (New has no error result)
Constructed(k, seed, reg) ==
    [scheme            |-> FormatInt(seed, 36),
     salt              |-> FormatInt(Int63(seed), 10),
     connectionPerHost |-> k,
     taken             |-> FormatInt(seed, 36) \in DOMAIN reg,
     err               |-> None]

\* New: the state of a Resolver once New has returned
New(k, seed) ==
    /\ connectionPerHost = k
    /\ salt = FormatInt(Int63(seed), 10)
    /\ scheme = FormatInt(seed, 36)
    /\ hasher = Reset
    /\ cc = 0
    /\ discoCh = <<>>
    /\ closed = FALSE
    /\ registered = TRUE
    /\ mu = 0
    /\ wg = 0
    /\ wpc = [w \in Watchers |-> None]
    /\ wsnap = [w \in Watchers |-> <<>>]
    /\ wlate = [w \in Watchers |-> FALSE]
    /\ bpc = "idle"
    /\ builds = 0
    /\ instances = <<>>
    /\ returns = <<>>
    /\ discovered = <<>>
    /\ cpc = [c \in Closers |-> "idle"]
    /\ panicked = None
    /\ updates = <<>>
    /\ received = <<>>
    /\ logs = <<>>
    /\ sent = 0
    /\ members = <<>>

\* the process once its first Resolver is constructed, at clock reading seed
Started(k, seed) ==
    /\ New(k, seed)
    /\ now = seed
    /\ registry = (FormatInt(seed, 36) :> 1)
    /\ resolvers = <<Constructed(k, seed, <<>>)>>
    /\ nows = 0
    /\ call = <<>>
    /\ ret = [out |-> <<>>, panic |-> None, hasher |-> Reset]

Init == \E k \in 0..MaxK, seed \in Seeds : Started(k, seed)

Running == panicked = None

\* the calls made so far, and whether one more may be made
Calls == builds + sent + nows + Cardinality({c \in Closers : cpc[c] /= "idle"})
MoreCalls == Calls < MaxCalls

\* the place in received of the snapshot watcher w received last (0: none yet)
Cur(w) ==
    LET got == {i \in 1..Len(received) : received[i].w = w}
    IN  IF got = {} THEN 0 ELSE CHOOSE i \in got : \A j \in got : j <= i

\* the membership changes by one backend and the Notifier sends the new
\* snapshot to the channel it has registered
Notify(s) ==
    /\ Running
    /\ registered
    /\ MoreCalls
    /\ Len(discoCh) < ChanCap
    /\ members' = s
    /\ sent' = sent + 1
    /\ IF closed
       THEN /\ panicked' = "send on closed channel"
            /\ UNCHANGED discoCh
       ELSE /\ discoCh' = Append(discoCh, s)
            /\ UNCHANGED panicked
    /\ UNCHANGED <<fixed, nows, hasher, cc, closed, registered, mu, wg,
                   wpc, wsnap, wlate, bpc, builds, instances, returns, discovered,
                   cpc, updates, received, logs, call, ret>>

(***************************************************************************)
(* Build: r.cc = cc and the call of Discoverer.Instances(), which either   *)
(* fails (Build returns nil and the error) or returns the instances; then  *)
(* the UpdateState call; then wg.Add(1), go r.watcher() and the return.    *)
(***************************************************************************)
\* Build with the error of Instances() ignored: it goes on to publish and to
\* start the watcher
Build_ErrIgnored(e) ==
    /\ Running
    /\ bpc = "idle"
    /\ MoreCalls
    /\ builds' = builds + 1
    /\ cc' = builds + 1
    /\ discovered' = Append(discovered, [instances |-> <<>>, err |-> e])
    /\ instances' = <<>>
    /\ bpc' = "update"
    /\ UNCHANGED <<fixed, nows, hasher, discoCh, closed, registered, mu,
                   wg, wpc, wsnap, wlate, returns, cpc, panicked, updates, received,
                   logs, sent, members, call, ret>>

\* Build with wg.Add(1) moved before the call of Instances()
Build_ErrAfterAdd(e) ==
    /\ Running
    /\ bpc = "idle"
    /\ MoreCalls
    /\ builds' = builds + 1
    /\ cc' = builds + 1
    /\ wg' = wg + 1
    /\ discovered' = Append(discovered, [instances |-> <<>>, err |-> e])
    /\ returns' = Append(returns, [resolver |-> "nil", err |-> e])
    /\ UNCHANGED <<fixed, nows, hasher, discoCh, closed, registered, mu,
                   wpc, wsnap, wlate, bpc, instances, cpc, panicked, updates,
                   received, logs, sent, members, call, ret>>

\* Build calling Instances() a second time when the first call failed
Build_ErrRetried(e) ==
    /\ Running
    /\ bpc = "idle"
    /\ MoreCalls
    /\ builds' = builds + 1
    /\ cc' = builds + 1
    /\ discovered' = discovered \o <<[instances |-> <<>>, err |-> e],
                                     [instances |-> <<>>, err |-> e]>>
    /\ returns' = Append(returns, [resolver |-> "nil", err |-> e])
    /\ UNCHANGED <<fixed, nows, hasher, discoCh, closed, registered, mu,
                   wg, wpc, wsnap, wlate, bpc, instances, cpc, panicked, updates,
                   received, logs, sent, members, call, ret>>

Build_Err(e) ==
    /\ Running
    /\ bpc = "idle"
    /\ MoreCalls
    /\ builds' = builds + 1
    /\ cc' = builds + 1
    /\ discovered' = Append(discovered, [instances |-> <<>>, err |-> e])
    /\ returns' = Append(returns, [resolver |-> "nil", err |-> e])
    /\ UNCHANGED <<fixed, nows, hasher, discoCh, closed, registered, mu,
                   wg, wpc, wsnap, wlate, bpc, instances, cpc, panicked, updates,
                   received, logs, sent, members, call, ret>>

\* Build starting the watcher before its own publish
Build_InstancesStartsWatcher(list) ==
    /\ Running
    /\ bpc = "idle"
    /\ MoreCalls
    /\ builds' = builds + 1
    /\ cc' = builds + 1
    /\ discovered' = Append(discovered, [instances |-> list, err |-> "nil"])
    /\ instances' = list
    /\ wg' = wg + 1
    /\ wpc' = [wpc EXCEPT ![builds + 1] = "range"]
    /\ bpc' = "update"
    /\ UNCHANGED <<fixed, nows, hasher, discoCh, closed, registered, mu,
                   wsnap, wlate, returns, cpc, panicked, updates, received,
                   logs, sent, members, call, ret>>

\* Build drawing a new salt from the clock before it publishes
Build_InstancesResalted(list) ==
    /\ Running
    /\ bpc = "idle"
    /\ MoreCalls
    /\ builds' = builds + 1
    /\ cc' = builds + 1
    /\ salt' = FormatInt(Int63(now + 1), 10)
    /\ discovered' = Append(discovered, [instances |-> list, err |-> "nil"])
    /\ instances' = list
    /\ bpc' = "update"
    /\ UNCHANGED <<connectionPerHost, scheme, now, registry, resolvers, nows, hasher,
                   discoCh, closed, registered, mu, wg, wpc, wsnap, wlate, returns,
                   cpc, panicked, updates, received, logs, sent, members, call, ret>>

Build_Instances(list) ==
    /\ Running
    /\ bpc = "idle"
    /\ MoreCalls
    /\ builds' = builds + 1
    /\ cc' = builds + 1
    /\ discovered' = Append(discovered, [instances |-> list, err |-> "nil"])
    /\ instances' = list
    /\ bpc' = "update"
    /\ UNCHANGED <<fixed, nows, hasher, discoCh, closed, registered, mu,
                   wg, wpc, wsnap, wlate, returns, cpc, panicked, updates, received,
                   logs, sent, members, call, ret>>

\* Build publishing the rendezvous-hashed subset instead of the raw list
Build_UpdateStateHashed ==
    /\ Running
    /\ bpc = "update"
    /\ LET r == rendezvousHash(instances, salt, hasher,
                               Min(connectionPerHost, Len(instances)))
       IN  updates' = Append(updates, [cc |-> cc, addrs |-> generateAddresses(r.out),
                                       from |-> instances, by |-> 0, of |-> builds])
    /\ bpc' = "go"
    /\ UNCHANGED <<fixed, nows, hasher, cc, discoCh, closed, registered,
                   mu, wg, wpc, wsnap, wlate, builds, instances, returns,
                   discovered, cpc, panicked, received, logs, sent, members, call, ret>>

Build_UpdateState ==
    /\ Running
    /\ bpc = "update"
    /\ updates' = Append(updates, [cc |-> cc, addrs |-> generateAddresses(instances),
                                   from |-> instances, by |-> 0, of |-> builds])
    /\ bpc' = "go"
    /\ UNCHANGED <<fixed, nows, hasher, cc, discoCh, closed, registered,
                   mu, wg, wpc, wsnap, wlate, builds, instances, returns,
                   discovered, cpc, panicked, received, logs, sent, members, call, ret>>

\* Build registering the channel with the Notifier when it starts the watcher
Build_GoRegisters ==
    /\ Running
    /\ bpc = "go"
    /\ registered' = TRUE
    /\ wg' = wg + 1
    /\ wpc' = [wpc EXCEPT ![builds] = "range"]
    /\ wlate' = [wlate EXCEPT ![builds] = \E c \in Closers : cpc[c] = "returned"]
    /\ returns' = Append(returns, [resolver |-> "r", err |-> "nil"])
    /\ bpc' = "idle"
    /\ UNCHANGED <<fixed, nows, hasher, cc, discoCh, closed,
                   mu, wsnap, builds, instances, discovered, cpc, panicked,
                   updates, received, logs, sent, members, call, ret>>

Build_Go ==
    /\ Running
    /\ bpc = "go"
    /\ wg' = wg + 1
    /\ wpc' = [wpc EXCEPT ![builds] = "range"]
    /\ wlate' = [wlate EXCEPT ![builds] = \E c \in Closers : cpc[c] = "returned"]
    /\ returns' = Append(returns, [resolver |-> "r", err |-> "nil"])
    /\ bpc' = "idle"
    /\ UNCHANGED <<fixed, nows, hasher, cc, discoCh, closed, registered,
                   mu, wsnap, builds, instances, discovered, cpc, panicked,
                   updates, received, logs, sent, members, call, ret>>

\* Scheme returns r.scheme
Scheme == scheme

\* ResolveNow fetching the instances and publishing them, as Build does
ResolveNow_Refresh ==
    /\ Running
    /\ MoreCalls
    /\ nows' = nows + 1
    /\ discovered' = Append(discovered, [instances |-> members, err |-> "nil"])
    /\ updates' = Append(updates, [cc |-> cc, addrs |-> generateAddresses(members),
                                   from |-> members, by |-> 0, of |-> 0])
    /\ UNCHANGED <<fixed, hasher, cc, discoCh, closed, registered, mu, wg, wpc, wsnap,
                   wlate, bpc, builds, instances, returns, cpc, panicked, received,
                   logs, sent, members, call, ret>>

\* ResolveNow is a noop
ResolveNow ==
    /\ Running
    /\ MoreCalls
    /\ nows' = nows + 1
    /\ UNCHANGED <<fixed, hasher, cc, discoCh, closed, registered, mu, wg, wpc, wsnap,
                   wlate, bpc, builds, instances, returns, discovered, cpc, panicked,
                   updates, received, logs, sent, members, call, ret>>

(***************************************************************************)
(* watcher: for latestHostPorts := range r.discoCh { Lock; Info;           *)
(* UpdateState(rendezvousHash(...)); Unlock }, with wg.Done() deferred.    *)
(***************************************************************************)
Watcher_Range(w) ==
    /\ Running
    /\ wpc[w] = "range"
    /\ discoCh /= <<>>
    /\ wsnap' = [wsnap EXCEPT ![w] = Head(discoCh)]
    /\ discoCh' = Tail(discoCh)
    /\ received' = Append(received, [w |-> w, snap |-> Head(discoCh)])
    /\ wpc' = [wpc EXCEPT ![w] = "lock"]
    /\ UNCHANGED <<fixed, nows, hasher, cc, closed, registered, mu, wg,
                   wlate, bpc, builds, instances, returns, discovered, cpc,
                   panicked, updates, logs, sent, members, call, ret>>

\* the watcher publishing an empty connection set when its loop ends
Watcher_DoneClears(w) ==
    /\ Running
    /\ wpc[w] = "range"
    /\ discoCh = <<>>
    /\ closed
    /\ wpc' = [wpc EXCEPT ![w] = "done"]
    /\ wg' = wg - 1
    /\ updates' = Append(updates, [cc |-> cc, addrs |-> <<>>, from |-> <<>>,
                                   by |-> w, of |-> Cur(w)])
    /\ UNCHANGED <<fixed, nows, hasher, cc, discoCh, closed, registered,
                   mu, wsnap, wlate, bpc, builds, instances, returns, discovered,
                   cpc, panicked, received, logs, sent, members, call, ret>>

\* the watcher leaving its loop as soon as the channel is closed
Watcher_DoneDiscards(w) ==
    /\ Running
    /\ wpc[w] = "range"
    /\ closed
    /\ wpc' = [wpc EXCEPT ![w] = "done"]
    /\ wg' = wg - 1
    /\ UNCHANGED <<fixed, nows, hasher, cc, discoCh, closed, registered,
                   mu, wsnap, wlate, bpc, builds, instances, returns, discovered,
                   cpc, panicked, updates, received, logs, sent, members, call, ret>>

\* the channel is closed and drained: the loop ends and wg.Done() runs
Watcher_Done(w) ==
    /\ Running
    /\ wpc[w] = "range"
    /\ discoCh = <<>>
    /\ closed
    /\ wpc' = [wpc EXCEPT ![w] = "done"]
    /\ wg' = wg - 1
    /\ UNCHANGED <<fixed, nows, hasher, cc, discoCh, closed, registered,
                   mu, wsnap, wlate, bpc, builds, instances, returns, discovered,
                   cpc, panicked, updates, received, logs, sent, members, call, ret>>

\* the watcher going on to hash and publish without taking r.mu
Watcher_LockNotTaken(w) ==
    /\ Running
    /\ wpc[w] = "lock"
    /\ logs' = Append(logs, [level |-> "Info", hostPorts |-> wsnap[w]])
    /\ wpc' = [wpc EXCEPT ![w] = "update"]
    /\ UNCHANGED <<fixed, nows, hasher, cc, discoCh, closed, registered, mu,
                   wg, wsnap, wlate, bpc, builds, instances, returns, discovered,
                   cpc, panicked, updates, received, sent, members, call, ret>>

\* the watcher writing the hashed subset to the log instead of the snapshot
Watcher_LockLogsSubset(w) ==
    /\ Running
    /\ wpc[w] = "lock"
    /\ mu = 0
    /\ mu' = w
    /\ logs' = Append(logs, [level |-> "Info",
                             hostPorts |-> rendezvousHash(wsnap[w], salt, hasher,
                                             Min(connectionPerHost, Len(wsnap[w]))).out])
    /\ wpc' = [wpc EXCEPT ![w] = "update"]
    /\ UNCHANGED <<fixed, nows, hasher, cc, discoCh, closed, registered,
                   wg, wsnap, wlate, bpc, builds, instances, returns, discovered,
                   cpc, panicked, updates, received, sent, members, call, ret>>

\* r.mu.Lock() and the log entry written under the lock
Watcher_Lock(w) ==
    /\ Running
    /\ wpc[w] = "lock"
    /\ mu = 0
    /\ mu' = w
    /\ logs' = Append(logs, [level |-> "Info", hostPorts |-> wsnap[w]])
    /\ wpc' = [wpc EXCEPT ![w] = "update"]
    /\ UNCHANGED <<fixed, nows, hasher, cc, discoCh, closed, registered,
                   wg, wsnap, wlate, bpc, builds, instances, returns, discovered,
                   cpc, panicked, updates, received, sent, members, call, ret>>

\* rendezvousHash(latestHostPorts, r.salt, r.hasher, r.connectionPerHost)
Hashed(w) == rendezvousHash(wsnap[w], salt, hasher, connectionPerHost)

\* r.cc.UpdateState(... generateAddresses(rendezvousHash(...))); a panic in
\* rendezvousHash runs the deferred wg.Done() and ends the process
Watcher_UpdateState(w) ==
    /\ Running
    /\ wpc[w] = "update"
    /\ hasher' = Hashed(w).hasher
    /\ IF Hashed(w).panic /= None
       THEN /\ panicked' = Hashed(w).panic
            /\ wpc' = [wpc EXCEPT ![w] = "panic"]
            /\ wg' = wg - 1
            /\ UNCHANGED updates
       ELSE /\ updates' = Append(updates,
                   [cc |-> cc, addrs |-> generateAddresses(Hashed(w).out),
                    from |-> wsnap[w], by |-> w, of |-> Cur(w)])
            /\ wpc' = [wpc EXCEPT ![w] = "unlock"]
            /\ UNCHANGED <<panicked, wg>>
    /\ UNCHANGED <<fixed, nows, cc, discoCh, closed, registered, mu,
                   wsnap, wlate, bpc, builds, instances, returns, discovered, cpc,
                   received, logs, sent, members, call, ret>>

Watcher_Unlock(w) ==
    /\ Running
    /\ wpc[w] = "unlock"
    /\ mu' = 0
    /\ wpc' = [wpc EXCEPT ![w] = "range"]
    /\ UNCHANGED <<fixed, nows, hasher, cc, discoCh, closed, registered,
                   wg, wsnap, wlate, bpc, builds, instances, returns, discovered,
                   cpc, panicked, updates, received, logs, sent, members, call, ret>>

watcher(w) ==
    \/ Watcher_Range(w)
    \/ Watcher_Done(w)
    \/ Watcher_Lock(w)
    \/ Watcher_UpdateState(w)
    \/ Watcher_Unlock(w)

(***************************************************************************)
(* Close: r.notifier.Unregister(r.discoCh); close(r.discoCh); r.wg.Wait(). *)
(***************************************************************************)
\* Close closing the channel before it unregisters it
Close_closeFirst(c) ==
    /\ Running
    /\ cpc[c] = "idle"
    /\ MoreCalls
    /\ IF c = 1 THEN TRUE ELSE cpc[c - 1] /= "idle"
    /\ closed' = TRUE
    /\ cpc' = [cpc EXCEPT ![c] = "close"]
    /\ UNCHANGED <<fixed, nows, hasher, cc, discoCh, registered, mu, wg, wpc,
                   wsnap, wlate, bpc, builds, instances, returns, discovered,
                   panicked, updates, received, logs, sent, members, call, ret>>

\* Close without the call of notifier.Unregister
Close_UnregisterSkipped(c) ==
    /\ Running
    /\ cpc[c] = "idle"
    /\ MoreCalls
    /\ IF c = 1 THEN TRUE ELSE cpc[c - 1] /= "idle"
    /\ cpc' = [cpc EXCEPT ![c] = "close"]
    /\ UNCHANGED <<fixed, nows, hasher, cc, discoCh, closed, registered, mu, wg, wpc,
                   wsnap, wlate, bpc, builds, instances, returns, discovered,
                   panicked, updates, received, logs, sent, members, call, ret>>

Close_Unregister(c) ==
    /\ Running
    /\ cpc[c] = "idle"
    /\ MoreCalls
    /\ IF c = 1 THEN TRUE ELSE cpc[c - 1] /= "idle"
    /\ registered' = FALSE
    /\ cpc' = [cpc EXCEPT ![c] = "close"]
    /\ UNCHANGED <<fixed, nows, hasher, cc, discoCh, closed, mu, wg, wpc,
                   wsnap, wlate, bpc, builds, instances, returns, discovered,
                   panicked, updates, received, logs, sent, members, call, ret>>

\* close(r.discoCh): closing a closed channel panics
Close_close(c) ==
    /\ Running
    /\ cpc[c] = "close"
    /\ IF closed
       THEN /\ panicked' = "close of closed channel"
            /\ cpc' = [cpc EXCEPT ![c] = "panic"]
            /\ UNCHANGED closed
       ELSE /\ closed' = TRUE
            /\ cpc' = [cpc EXCEPT ![c] = "wait"]
            /\ UNCHANGED panicked
    /\ UNCHANGED <<fixed, nows, hasher, cc, discoCh, registered, mu, wg,
                   wpc, wsnap, wlate, bpc, builds, instances, returns, discovered,
                   updates, received, logs, sent, members, call, ret>>

\* Close returning without the wait for the watchers
Close_WaitNoJoin(c) ==
    /\ Running
    /\ cpc[c] = "wait"
    /\ cpc' = [cpc EXCEPT ![c] = "returned"]
    /\ UNCHANGED <<fixed, nows, hasher, cc, discoCh, closed, registered,
                   mu, wg, wpc, wsnap, wlate, bpc, builds, instances, returns,
                   discovered, panicked, updates, received, logs, sent, members, call, ret>>

\* r.wg.Wait() returns once the counter is zero
Close_Wait(c) ==
    /\ Running
    /\ cpc[c] = "wait"
    /\ wg = 0
    /\ cpc' = [cpc EXCEPT ![c] = "returned"]
    /\ UNCHANGED <<fixed, nows, hasher, cc, discoCh, closed, registered,
                   mu, wg, wpc, wsnap, wlate, bpc, builds, instances, returns,
                   discovered, panicked, updates, received, logs, sent, members, call, ret>>

Close(c) ==
    \/ Close_Unregister(c)
    \/ Close_close(c)
    \/ Close_Wait(c)

Build ==
    \/ \E e \in Errors : Build_Err(e)
    \/ Build_Instances(members)
    \/ Build_UpdateState
    \/ Build_Go

Next ==
    \/ \E s \in Changes(members) : Notify(s)
    \/ Build
    \/ ResolveNow
    \/ \E w \in Watchers : watcher(w)
    \/ \E c \in Closers : Close(c)

Spec == Init /\ [][Next]_vars

(***************************************************************************)
(* The process constructing Resolvers: each New reads the clock for its    *)
(* seed, derives scheme and salt from it, registers the Resolver with grpc *)
(* under its scheme (resolver.Register replaces an entry of the same       *)
(* scheme) and its channel with the Notifier.  The Resolver's variables    *)
(* hold the Resolver constructed last.                                     *)
(***************************************************************************)
Tick ==
    /\ now < MaxNow
    /\ now' = now + 1
    /\ UNCHANGED <<connectionPerHost, salt, scheme, registry, resolvers, nows, hasher,
                   cc, discoCh, closed, registered, mu, wg, wpc, wsnap, wlate, bpc,
                   builds, instances, returns, discovered, cpc, panicked, updates,
                   received, logs, sent, members, call, ret>>

NewResolver(k) ==
    /\ Len(resolvers) < MaxResolvers
    /\ connectionPerHost' = k
    /\ salt' = FormatInt(Int63(now), 10)
    /\ scheme' = FormatInt(now, 36)
    /\ hasher' = Reset
    /\ discoCh' = <<>>
    /\ registry' = (FormatInt(now, 36) :> (Len(resolvers) + 1)) @@ registry
    /\ registered' = TRUE
    /\ resolvers' = Append(resolvers, Constructed(k, now, registry))
    /\ UNCHANGED <<now, nows, cc, closed, mu, wg, wpc, wsnap, wlate, bpc, builds,
                   instances, returns, discovered, cpc, panicked, updates, received,
                   logs, sent, members, call, ret>>

ProcessNext ==
    \/ Tick
    \/ \E k \in 0..MaxK : NewResolver(k)

ProcessSpec == Init /\ [][ProcessNext]_vars

(***************************************************************************)
(* rendezvousHash on its own: a Resolver with any salt and any             *)
(* connectionPerHost applies it to address lists, one call after another,  *)
(* with its shared hasher.                                                 *)
(***************************************************************************)
HashInit == \E k \in (-1)..MaxK, seed \in Seeds : Started(k, seed)

HashCall(addresses) ==
    /\ call' = <<addresses, hasher>>
    /\ ret' = rendezvousHash(addresses, salt, hasher, connectionPerHost)
    /\ hasher' = ret'.hasher
    /\ UNCHANGED resolverVars

HashNext == \E addresses \in ListsOf(HashAddrs, MaxHashLen) : HashCall(addresses)

HashSpec == HashInit /\ [][HashNext]_vars

(***************************************************************************)
(* rendezvousHash on a shrinking membership: the first call gets the seven *)
(* backends of Pool in one of its orders, every later call the list of the *)
(* call before with one backend removed.                                   *)
(***************************************************************************)
ShrinkFirst(addresses) ==
    /\ call = <<>>
    /\ HashCall(addresses)

ShrinkRemove(i) ==
    /\ call /= <<>>
    /\ i <= Len(call[1])
    /\ HashCall(Without(call[1], i))

ShrinkNext ==
    \/ \E n \in 0..(Len(Pool) - 1) : ShrinkFirst(Rotate(Pool, n))
    \/ \E i \in 1..Len(Pool) : ShrinkRemove(i)

ShrinkSpec == Init /\ [][ShrinkNext]_vars

(***************************************************************************)
(* rendezvousHash on a membership that changes by one backend at a time:   *)
(* the first call gets any list of the addresses of HashAddrs, every later *)
(* call the list of the call before with one backend removed or one added  *)
(* at its end.                                                             *)
(***************************************************************************)
ChurnFirst(addresses) ==
    /\ call = <<>>
    /\ HashCall(addresses)

ChurnCall(addresses) ==
    /\ call /= <<>>
    /\ call' = <<addresses, hasher, call[1], ret>>
    /\ ret' = rendezvousHash(addresses, salt, hasher, connectionPerHost)
    /\ hasher' = ret'.hasher
    /\ UNCHANGED resolverVars

ChurnRemove(i) ==
    /\ call /= <<>>
    /\ i <= Len(call[1])
    /\ ChurnCall(Without(call[1], i))

ChurnAdd(a) ==
    /\ call /= <<>>
    /\ a \notin Range(call[1])
    /\ ChurnCall(Append(call[1], a))

ChurnNext ==
    \/ \E addresses \in ListsOf(HashAddrs, Cardinality(HashAddrs)) : ChurnFirst(addresses)
    \/ \E i \in 1..Cardinality(HashAddrs) : ChurnRemove(i)
    \/ \E a \in HashAddrs : ChurnAdd(a)

ChurnSpec == Init /\ [][ChurnNext]_vars


(***************************************************************************)
(* Definitions the properties use.                                         *)
(***************************************************************************)
\* the watcher goroutines that are running
Live == {w \in Watchers : wpc[w] \notin {None, "done", "panic"}}

\* the places in updates of the UpdateState calls made on handle h
UpdatesOn(h) == {j \in 1..Len(updates) : updates[j].cc = h}

\* whether handle h holds a published connection set, and the update that set it
Published(h) == UpdatesOn(h) /= {}
Current(h) == updates[CHOOSE j \in UpdatesOn(h) : \A i \in UpdatesOn(h) : i <= j]

Handles == 1..MaxCalls

\* whether watcher w can take a step: the process runs and the watcher is not
\* blocked on the channel or on the lock
WatcherCanStep(w) ==
    /\ Running
    /\ \/ wpc[w] = "range" /\ (discoCh /= <<>> \/ closed)
       \/ wpc[w] = "lock" /\ mu = 0
       \/ wpc[w] \in {"update", "unlock"}

CloseReturned == \E c \in Closers : cpc[c] = "returned"

\* every Build call so far failed in Discoverer.Instances()
OnlyFailedBuilds ==
    /\ discovered /= <<>>
    /\ \A i \in 1..Len(discovered) : discovered[i].err /= "nil"

\* the UpdateState calls made by Build call i itself
BuildUpdates(i) == {j \in 1..Len(updates) : updates[j].by = 0 /\ updates[j].of = i}

\* the UpdateState calls made for the i-th received snapshot
WatcherUpdates(i) ==
    {j \in 1..Len(updates) : updates[j].by = received[i].w /\ updates[j].of = i}

\* the received snapshots equal to v whose watcher has got the lock for them,
\* and the log entries that carry v
Accepted(v) ==
    {i \in 1..Len(received) :
        /\ received[i].snap = v
        /\ ~(Cur(received[i].w) = i /\ wpc[received[i].w] = "lock")}
Logged(v) == {n \in 1..Len(logs) : logs[n].hostPorts = v}

\* the score of an address under the Resolver's salt, as a hostScore
Scored(address) ==
    [address |-> address, score |-> hashAddr(Reset, Bytes(address), salt).sum]

\* nothing is left to publish: the queue is empty, no Build call is running and
\* every watcher is waiting for a snapshot or has ended
Quiet ==
    /\ discoCh = <<>>
    /\ bpc = "idle"
    /\ \A w \in Watchers : wpc[w] \in {None, "range", "done", "panic"}

(***************************************************************************)
(* C1.  For every address list A and every K >= 0, rendezvousHash(A, salt, *)
(* K) returns exactly min(K, |A|) addresses and never faults.  The code    *)
(* indexes hosts[i] for every i < K, so it panics when |A| < K.            *)
(***************************************************************************)
C1_ReturnsMinOfKAndLen ==
    (call /= <<>> /\ connectionPerHost >= 0) =>
        /\ ret.panic = None
        /\ Len(ret.out) = Min(connectionPerHost, Len(call[1]))

(***************************************************************************)
(* C2.  As claimed: in every reachable state the currently published       *)
(* connection set has at most connectionPerHost addresses and at most as   *)
(* many addresses as the instance list it was computed from.               *)
(***************************************************************************)
C2_SizeNeverExceedsMaximum ==
    \A h \in Handles : Published(h) =>
        /\ Len(Current(h).addrs) <= connectionPerHost
        /\ Len(Current(h).addrs) <= Len(Current(h).from)

\* C2, amended.  The currently published connection set has at most as many
\* addresses as the list it was computed from, and at most connectionPerHost
\* addresses when the watcher published it; the set Build publishes is the raw
\* instance list and may exceed connectionPerHost.
C2_SizeBoundedOnceHashed ==
    \A h \in Handles : Published(h) =>
        /\ Len(Current(h).addrs) <= Len(Current(h).from)
        /\ Current(h).by /= 0 => Len(Current(h).addrs) <= connectionPerHost

\* a watcher published a set that it had to cut down to connectionPerHost
C2_Witness ==
    \E h \in Handles :
        /\ Published(h)
        /\ Current(h).by /= 0
        /\ connectionPerHost >= 1
        /\ Len(Current(h).from) > connectionPerHost
        /\ Len(Current(h).addrs) = connectionPerHost

(***************************************************************************)
(* C3.  At most one watcher task is running for a Resolver, and exactly    *)
(* one between a successful Build and Close.  Every successful Build       *)
(* starts a watcher, so two Builds leave two watchers running.             *)
(***************************************************************************)
C3_OneWatcher ==
    /\ Cardinality(Live) <= 1
    /\ ( /\ Running
         /\ \E i \in 1..Len(returns) : returns[i].resolver = "r"
         /\ \A c \in Closers : cpc[c] = "idle" ) => Cardinality(Live) = 1

(***************************************************************************)
(* C4.  Once Close() has returned, the watchers it joined (those started   *)
(* before it returned) are past their loop and take no further step: no    *)
(* lock, no receive, no publish.                                           *)
(***************************************************************************)
C4_NoWatcherStepAfterClose ==
    /\ [](CloseReturned =>
            \A w \in Watchers : ~wlate[w] => (wpc[w] \in {None, "done"} /\ mu /= w))
    /\ [][CloseReturned =>
            \A w \in Watchers : ~wlate'[w] =>
                (wpc'[w] = wpc[w] /\ wsnap'[w] = wsnap[w] /\ Cur(w)' = Cur(w))]_vars

\* Close returned after a watcher had received and published a snapshot
C4_Witness ==
    /\ CloseReturned
    /\ \E w \in Watchers :
        /\ wpc[w] = "done"
        /\ ~wlate[w]
        /\ \E j \in 1..Len(updates) : updates[j].by = w

(***************************************************************************)
(* C5.  Close() always terminates: a Close call that has not returned yet  *)
(* can always make progress, by a step of its own or of a watcher it waits *)
(* for (one Close call is considered).  A buffered snapshot shorter than   *)
(* connectionPerHost makes the watcher panic, and Close never returns.     *)
(***************************************************************************)
C5_CloseTerminates ==
    (cpc[1] \notin {"idle", "returned"} /\ cpc[2] = "idle") =>
        \/ ENABLED Close(1)
        \/ \E w \in Watchers : WatcherCanStep(w)

(***************************************************************************)
(* C6.  A second Close() does not fault.  close(r.discoCh) runs again on   *)
(* the closed channel and panics.                                          *)
(***************************************************************************)
C6_SecondCloseNoFault ==
    /\ panicked /= "close of closed channel"
    /\ \A c \in Closers : cpc[c] /= "panic"

(***************************************************************************)
(* C7.  When Discoverer.Instances() fails during Build, Build returns that *)
(* same error and no resolver, starts no watcher, publishes nothing and    *)
(* does not call the Discoverer again.                                     *)
(***************************************************************************)
C7_BuildReturnsDiscovererError ==
    /\ Len(discovered) = builds
    /\ \A i \in 1..Len(discovered) : discovered[i].err /= "nil" =>
        /\ Len(returns) >= i
        /\ returns[i] = [resolver |-> "nil", err |-> discovered[i].err]
        /\ wpc[i] = None
        /\ BuildUpdates(i) = {}

\* a Build failed while the watcher of an earlier Build is running
C7_Witness ==
    /\ Len(returns) = 2
    /\ returns[1].resolver = "r"
    /\ returns[2].err \in Errors
    /\ wpc[1] = "range"

(***************************************************************************)
(* C8.  After a Build that failed with a Discoverer error, Close() returns *)
(* without blocking and without fault, and nothing is published.           *)
(***************************************************************************)
C8_CloseAfterFailedBuild ==
    (OnlyFailedBuilds /\ cpc[2] = "idle") =>
        /\ Running
        /\ cpc[1] \in {"close", "wait"} => ENABLED Close(1)
        /\ updates = <<>>
        /\ Live = {}

\* Close has returned after a failed Build
C8_Witness ==
    /\ OnlyFailedBuilds
    /\ cpc[1] = "returned"
    /\ cpc[2] = "idle"
    /\ Running

(***************************************************************************)
(* C9.  When Discoverer.Instances() succeeds during Build, Build publishes *)
(* exactly the returned list, in full and unfiltered, on the handle it was *)
(* given, once, and returns the resolver with no error.                    *)
(***************************************************************************)
C9_BuildPublishesRawInstances ==
    \A i \in 1..Len(discovered) : discovered[i].err = "nil" =>
        /\ \A j \in BuildUpdates(i) :
            /\ updates[j].cc = i
            /\ Len(updates[j].addrs) = Len(discovered[i].instances)
            /\ \A k \in 1..Len(updates[j].addrs) :
                  updates[j].addrs[k] = [Addr |-> discovered[i].instances[k]]
        /\ Len(returns) >= i =>
            /\ returns[i] = [resolver |-> "r", err |-> "nil"]
            /\ Cardinality(BuildUpdates(i)) = 1

\* a Build returned after it published more than connectionPerHost addresses
C9_Witness ==
    \E i \in 1..Len(returns) :
        /\ returns[i].resolver = "r"
        /\ connectionPerHost >= 1
        /\ \E j \in BuildUpdates(i) : Len(updates[j].addrs) > connectionPerHost

(***************************************************************************)
(* C10.  For each snapshot a watcher receives it makes exactly one         *)
(* UpdateState call, with the rendezvous-hashed subset of that snapshot.   *)
(* For a snapshot shorter than connectionPerHost the watcher panics in     *)
(* rendezvousHash and publishes nothing.                                   *)
(***************************************************************************)
C10_OnePublishPerSnapshot ==
    \A i \in 1..Len(received) :
        /\ Cardinality(WatcherUpdates(i)) <= 1
        /\ \A j \in WatcherUpdates(i) :
              /\ Len(updates[j].addrs) = Min(connectionPerHost, Len(received[i].snap))
              /\ \A k \in 1..Len(updates[j].addrs) :
                    \E n \in 1..Len(received[i].snap) :
                        updates[j].addrs[k].Addr = received[i].snap[n]
        /\ (Cur(received[i].w) /= i \/ wpc[received[i].w] \in {"range", "done", "panic"})
              => Cardinality(WatcherUpdates(i)) = 1

(***************************************************************************)
(* C11.  rendezvousHash is deterministic: whatever state earlier hash      *)
(* computations left the shared hasher in, a call with the address list A  *)
(* returns what a call with a fresh hasher returns for A, the salt and     *)
(* connectionPerHost (the same subset, or the same fault).                 *)
(***************************************************************************)
C11_SameResultWhateverTheHasherHeld ==
    call /= <<>> =>
        LET fresh == rendezvousHash(call[1], salt, Reset, connectionPerHost)
        IN  /\ ret.out = fresh.out
            /\ ret.panic = fresh.panic

\* a call returned a cut-down subset although earlier calls had left the
\* hasher in another state than a fresh one
C11_Witness ==
    /\ call /= <<>>
    /\ call[2] /= Reset
    /\ ret.panic = None
    /\ connectionPerHost >= 1
    /\ Len(call[1]) > connectionPerHost

(***************************************************************************)
(* C12.  Minimal disruption: when a list with more than connectionPerHost  *)
(* addresses loses one address that is not in the subset rendezvousHash    *)
(* returned for it, the call on the remaining list returns the same set.   *)
(* Less compares the scores alone and sort.Sort is not stable from seven   *)
(* elements on, so two addresses of equal score can change places when a   *)
(* third address leaves.                                                   *)
(***************************************************************************)
C12_RemovalOutsideSubsetKeepsSubset ==
    [][(call /= <<>> /\ call' /= <<>>) =>
          \A i \in 1..Len(call[1]) :
              ( /\ Len(call[1]) > connectionPerHost
                /\ ret.panic = None
                /\ call[1][i] \notin Range(ret.out)
                /\ call'[1] = Without(call[1], i) )
              => /\ ret'.panic = None
                 /\ Range(ret'.out) = Range(ret.out)]_vars

(***************************************************************************)
(* C13.  With the salt fixed, when one backend is added to or removed from *)
(* the list, the subset rendezvousHash returns loses at most one address   *)
(* and gains at most one, compared with the subset it returned before.     *)
(***************************************************************************)
C13_OneBackendMovesOneAddress ==
    (Len(call) = 4 /\ call[4].panic = None /\ ret.panic = None) =>
        /\ Cardinality(Range(call[4].out) \ Range(ret.out)) <= 1
        /\ Cardinality(Range(ret.out) \ Range(call[4].out)) <= 1

\* a backend of the subset of two left a list of four, and another address
\* took its place
C13_Witness ==
    /\ Len(call) = 4
    /\ connectionPerHost = 2
    /\ Len(call[3]) = 4
    /\ Len(call[1]) = 3
    /\ call[4].panic = None
    /\ ret.panic = None
    /\ Cardinality(Range(call[4].out) \ Range(ret.out)) = 1
    /\ Cardinality(Range(ret.out) \ Range(call[4].out)) = 1
    /\ Range(call[4].out) \ Range(ret.out) = Range(call[3]) \ Range(call[1])

(***************************************************************************)
(* C14.  Addresses of equal score are ordered by a deterministic           *)
(* tie-break: two calls that get the same set of addresses, in whatever    *)
(* order, return the same subset.  Less compares the scores alone, so two  *)
(* addresses of equal score stay in the order the list presents them in.   *)
(***************************************************************************)
C14_SameMembersSameSubset ==
    [][( /\ call /= <<>>
         /\ call' /= <<>>
         /\ Range(call'[1]) = Range(call[1])
         /\ ret.panic = None
         /\ ret'.panic = None )
       => Range(ret'.out) = Range(ret.out)]_vars

(***************************************************************************)
(* C15.  Salt and scheme are fixed at construction: in every state the     *)
(* Resolver can reach through Build, its watchers, ResolveNow and Close,   *)
(* Scheme() returns the scheme New generated and the salt the scores are   *)
(* computed with is the salt New generated.                                *)
(***************************************************************************)
C15_SaltAndSchemeAsConstructed ==
    /\ Scheme = resolvers[1].scheme
    /\ salt = resolvers[1].salt

\* Build, a watcher publishing a hashed subset, ResolveNow and Close have all run
C15_Witness ==
    /\ nows >= 1
    /\ cpc[1] = "returned"
    /\ \E j \in 1..Len(updates) : updates[j].by /= 0 /\ updates[j].addrs /= <<>>
    /\ Scheme = resolvers[1].scheme

(***************************************************************************)
(* C16.  ResolveNow() is a no-op: a call changes neither what is published *)
(* nor the queue, the watchers, the lock, the WaitGroup, the registration  *)
(* with the Notifier or the connection handle, and it does not call the    *)
(* Discoverer.                                                             *)
(***************************************************************************)
C16_ResolveNowChangesNothing ==
    [][nows' /= nows =>
          UNCHANGED <<fixed, hasher, cc, discoCh, closed, registered, mu, wg, wpc,
                      wsnap, bpc, builds, instances, returns, discovered, cpc,
                      panicked, updates, received, logs, sent, members>>]_vars

\* ResolveNow was called while a watcher held the lock for a snapshot and
\* another snapshot waited in the queue
C16_Witness ==
    /\ nows >= 1
    /\ discoCh /= <<>>
    /\ \E w \in Watchers : wpc[w] = "update" /\ mu = w

(***************************************************************************)
(* C17.  A Notifier that sends only to a registered channel never sends to *)
(* the closed channel: Close unregisters before it closes, so no send      *)
(* faults and the queue gets nothing once it is closed.                    *)
(***************************************************************************)
C17_NoSendOnClosedQueue ==
    /\ [](panicked /= "send on closed channel")
    /\ [](closed => ~registered)
    /\ [][closed => (sent' = sent /\ Len(discoCh') <= Len(discoCh))]_vars

\* the queue was closed with a snapshot of the Notifier still buffered in it
C17_Witness ==
    /\ closed
    /\ sent >= 1
    /\ discoCh /= <<>>
    /\ Running

(***************************************************************************)
(* C18.  Resolvers constructed in one process have distinct schemes, and   *)
(* each stays registered under its own.  The scheme is the clock reading   *)
(* alone, so two calls of New that read the same time get the same scheme  *)
(* and the second registration replaces the first.                         *)
(***************************************************************************)
C18_DistinctSchemes ==
    /\ \A i, j \in 1..Len(resolvers) :
           i /= j => resolvers[i].scheme /= resolvers[j].scheme
    /\ \A i \in 1..Len(resolvers) : registry[resolvers[i].scheme] = i

(***************************************************************************)
(* C19.  When the scheme of a new Resolver is registered already, New      *)
(* reports a construction error and leaves the registration to the         *)
(* Resolver that holds it.  New has no error result and resolver.Register  *)
(* replaces the entry.                                                     *)
(***************************************************************************)
C19_DuplicateSchemeIsAnError ==
    \A i \in 1..Len(resolvers) : resolvers[i].taken =>
        /\ resolvers[i].err /= None
        /\ registry[resolvers[i].scheme] /= i

(***************************************************************************)
(* C20.  The published connection set changes only by the publish of a     *)
(* Build call or by the one publish a watcher makes for a snapshot it      *)
(* received from the Notifier: with the queue empty, no Build running and  *)
(* every watcher waiting, no step changes or clears what is published.     *)
(***************************************************************************)
C20_PublishedSetStaysWithoutSnapshot ==
    [][ /\ Quiet => updates' = updates
        /\ updates' /= updates =>
              /\ Len(updates') = Len(updates) + 1
              /\ SubSeq(updates', 1, Len(updates)) = updates
              /\ LET u == updates'[Len(updates')]
                 IN  \/ /\ u.by = 0
                        /\ bpc = "update"
                        /\ u.of = builds
                        /\ BuildUpdates(builds) = {}
                     \/ /\ u.by \in Watchers
                        /\ wpc[u.by] = "update"
                        /\ u.of = Cur(u.by)
                        /\ u.of >= 1
                        /\ u.from = received[u.of].snap
                        /\ WatcherUpdates(u.of) = {} ]_vars

\* a watcher has published a subset, the queue is empty, every watcher waits
\* and ResolveNow has been called
C20_Witness ==
    /\ Quiet
    /\ Running
    /\ ~closed
    /\ nows >= 1
    /\ \E j \in 1..Len(updates) : updates[j].by /= 0 /\ updates[j].addrs /= <<>>

(***************************************************************************)
(* C21.  After Close() has returned no operation publishes to a connection *)
(* handle or writes resolver state any more, whichever operation is        *)
(* invoked.  Build has no check for a closed Resolver: called after Close  *)
(* it stores the handle, publishes the Discoverer's list and starts a      *)
(* watcher.                                                                *)
(***************************************************************************)
C21_NothingAfterClose ==
    [][CloseReturned =>
          /\ updates' = updates
          /\ cc' = cc
          /\ wg' = wg
          /\ \A w \in Watchers : wpc'[w] = wpc[w]]_vars

(***************************************************************************)
(* C22.  The watcher writes exactly one Info entry to the log for every    *)
(* snapshot it goes on to handle, carrying the snapshot as received (not   *)
(* the hashed subset); Build writes none.                                  *)
(***************************************************************************)
C22_OneLogEntryPerSnapshot ==
    /\ \A n \in 1..Len(logs) :
          /\ logs[n].level = "Info"
          /\ \E i \in 1..Len(received) : logs[n].hostPorts = received[i].snap
    /\ \A i \in 1..Len(received) :
          Cardinality(Logged(received[i].snap)) = Cardinality(Accepted(received[i].snap))
    /\ Len(logs) = Len(received) - Cardinality({w \in Watchers : wpc[w] = "lock"})

\* Build has published and a watcher has logged and published a snapshot that
\* is longer than the subset it published for it
C22_Witness ==
    /\ Len(logs) = 1
    /\ \E j \in 1..Len(updates) : updates[j].by = 0
    /\ \E j \in 1..Len(updates) :
          /\ updates[j].by /= 0
          /\ updates[j].from = logs[1].hostPorts
          /\ Len(updates[j].addrs) < Len(logs[1].hostPorts)

(***************************************************************************)
(* C23.  rendezvousHash returns the min(K, N) lowest-scored addresses of   *)
(* the list: no address left out scores lower than a selected one, and the *)
(* result is in ascending order of score.  For N < K the call faults (C1). *)
(***************************************************************************)
C23_LowestScoredInAscendingOrder ==
    (call /= <<>> /\ connectionPerHost >= 0) =>
        /\ ret.panic = None
        /\ Len(ret.out) = Min(connectionPerHost, Len(call[1]))
        /\ Range(ret.out) \subseteq Range(call[1])
        /\ \A a \in Range(ret.out), b \in Range(call[1]) \ Range(ret.out) :
              ~Less(Scored(b), Scored(a))
        /\ \A i, j \in 1..Len(ret.out) :
              i < j => ~Less(Scored(ret.out[j]), Scored(ret.out[i]))

(***************************************************************************)
(* C24.  A watcher holds the lock only between taking it for a snapshot    *)
(* and releasing it after the publish: it does not hold it while it waits  *)
(* for a snapshot or for the lock, nor once it has left its loop.  A       *)
(* snapshot shorter than connectionPerHost makes the watcher panic in      *)
(* rendezvousHash (C1) between Lock and Unlock, and the lock stays held.   *)
(***************************************************************************)
C24_LockHeldOnlyWhilePublishing ==
    /\ mu \in Watchers => wpc[mu] \in {"update", "unlock"}
    /\ \A w \in Watchers :
          wpc[w] \in {None, "range", "lock", "done", "panic"} => mu /= w

(***************************************************************************)
(* C25.  Once a watcher has been started, every publish is made by a       *)
(* watcher that holds the lock, and no other task publishes.  Build        *)
(* publishes on the caller's task without taking the lock, also when it is *)
(* called again while the watcher of an earlier Build is running.          *)
(***************************************************************************)
C25_PublishesByLockHolderOnly ==
    [][(updates' /= updates /\ Live /= {}) =>
          LET u == updates'[Len(updates')]
          IN  /\ u.by \in Watchers
              /\ mu = u.by]_vars

(***************************************************************************)
(* C26.  The shared hasher is used only by the task that holds the lock:   *)
(* a watcher is at its rendezvousHash call only while it holds r.mu, so no *)
(* two tasks are there together, a step that changes the hasher is a step  *)
(* of the lock holder, and no step of Build changes the hasher.            *)
(***************************************************************************)
C26_HasherUsedUnderLockOnly ==
    /\ [](\A w \in Watchers : wpc[w] = "update" => mu = w)
    /\ [][hasher' /= hasher =>
             /\ mu \in Watchers
             /\ wpc[mu] = "update"
             /\ wpc'[mu] /= "update"
             /\ bpc' = bpc
             /\ builds' = builds]_vars

\* a watcher is at its rendezvousHash call under the lock while a second
\* watcher, with a snapshot of its own, waits for the lock
C26_Witness ==
    /\ Running
    /\ \E w, v \in Watchers :
          /\ wpc[w] = "update"
          /\ mu = w
          /\ wpc[v] = "lock"

(***************************************************************************)
(* C27.  The raw publish of a successful Build is made before the watcher  *)
(* of that Build is started: it precedes every publish of that watcher, so *)
(* a snapshot that was buffered in the queue when Build ran is published   *)
(* after it (and, each publish replacing the last, is what the handle      *)
(* holds then).                                                            *)
(***************************************************************************)
C27_BuildPublishesBeforeItsWatcher ==
    /\ \A w \in Watchers : wpc[w] /= None => BuildUpdates(w) /= {}
    /\ \A j \in 1..Len(updates) : updates[j].by /= 0 =>
          \E i \in 1..(j - 1) : updates[i].by = 0 /\ updates[i].of = updates[j].by

\* a snapshot was in the queue when the first Build ran (the Discoverer knew
\* its backend already); the watcher published it after Build's raw list
C27_Witness ==
    /\ builds = 1
    /\ discovered[1].instances /= <<>>
    /\ Len(updates) = 2
    /\ updates[1].by = 0
    /\ updates[2].by = 1
    /\ updates[2].from = received[1].snap
    /\ Current(1) = updates[2]

(***************************************************************************)
(* C28.  Close() unregisters the queue from the Notifier, then closes it,  *)
(* then waits for the watchers and only then returns: the queue is closed  *)
(* only once it is unregistered, a Close call waits only once the queue is *)
(* closed, and it returns only from its wait, with no watcher left.        *)
(***************************************************************************)
C28_CloseUnregistersClosesWaits ==
    /\ [](\A c \in Closers :
             /\ cpc[c] /= "idle" => ~registered
             /\ cpc[c] \in {"wait", "returned"} => closed)
    /\ [][(closed' /= closed) =>
             /\ ~registered
             /\ \E c \in Closers : cpc[c] = "close" /\ cpc'[c] = "wait"]_vars
    /\ [][\A c \in Closers : (cpc'[c] = "returned" /\ cpc[c] /= "returned") =>
             /\ cpc[c] = "wait"
             /\ closed
             /\ wg = 0]_vars

\* Close has unregistered and closed the queue and waits for a watcher that
\* still has a buffered snapshot to handle
C28_Witness ==
    /\ cpc[1] = "wait"
    /\ closed
    /\ ~registered
    /\ wg > 0
    /\ discoCh /= <<>>
    /\ Running

(***************************************************************************)
(* C29.  A watcher leaves its loop only because the queue was closed: no   *)
(* snapshot makes it stop or fault.  A snapshot shorter than               *)
(* connectionPerHost makes it panic in rendezvousHash (C1).                *)
(***************************************************************************)
C29_WatcherEndsOnCloseOnly ==
    \A w \in Watchers :
        /\ wpc[w] /= "panic"
        /\ wpc[w] = "done" => closed
        /\ panicked \notin {"index out of range", "makeslice: len out of range"}

(***************************************************************************)
(* C30.  Between a successful Build and Close the Resolver keeps draining  *)
(* its queue: while a snapshot is buffered and a watcher has been started, *)
(* some watcher can take its next step, so that under fair scheduling the  *)
(* queue empties.  After the panic of C1 no watcher steps any more and the *)
(* snapshots behind the undersized one stay in the queue.                  *)
(***************************************************************************)
C30_QueueKeepsDraining ==
    ( /\ discoCh /= <<>>
      /\ \E w \in Watchers : wpc[w] /= None
      /\ \A c \in Closers : cpc[c] = "idle" )
    => \E w \in Watchers : WatcherCanStep(w)

(***************************************************************************)
(* C31.  The queue never holds more than 100 snapshots; only the Notifier  *)
(* puts snapshots on it and one watcher task takes them off, each snapshot *)
(* once.  Two successful Builds start two watchers (C3), and both receive  *)
(* from the queue.                                                         *)
(***************************************************************************)
C31_OneProducerOneConsumer ==
    /\ Len(discoCh) <= ChanCap
    /\ Len(received) + Len(discoCh) = sent
    /\ Cardinality({received[i].w : i \in 1..Len(received)}) <= 1

(***************************************************************************)
(* C32.  Every Build call calls Discoverer.Instances() exactly once,       *)
(* whether the call succeeds or fails, and nothing else calls it: the      *)
(* calls of the Discoverer are as many as the Build calls, and a step that *)
(* adds one is the first step of a Build call.                             *)
(***************************************************************************)
C32_OneDiscovererCallPerBuild ==
    /\ [](Len(discovered) = builds)
    /\ [][discovered' /= discovered =>
             /\ bpc = "idle"
             /\ builds' = builds + 1
             /\ Len(discovered') = Len(discovered) + 1
             /\ SubSeq(discovered', 1, Len(discovered)) = discovered
             /\ nows' = nows
             /\ cpc' = cpc
             /\ wpc' = wpc]_vars

\* a Build failed and a Build succeeded, and ResolveNow and Close were called
C32_Witness ==
    /\ Len(discovered) = 2
    /\ \E i \in 1..2 : discovered[i].err /= "nil"
    /\ \E i \in 1..2 : discovered[i].err = "nil"
    /\ nows >= 1
    /\ cpc[1] /= "idle"

(***************************************************************************)
(* C33.  When Close() is called after a successful Build, every snapshot   *)
(* put on the queue before it was closed has been received and published   *)
(* by a watcher when Close() returns: a returned Close with a watcher that *)
(* was started before it returned leaves the queue empty, every snapshot   *)
(* sent was received, and every received snapshot was published.           *)
(***************************************************************************)
C33_CloseDrainsTheQueue ==
    (/\ CloseReturned
     /\ \E w \in Watchers : wpc[w] /= None /\ ~wlate[w])
        => /\ discoCh = <<>>
           /\ Len(received) = sent
           /\ \A i \in 1..Len(received) : WatcherUpdates(i) /= {}

\* Close has returned after two snapshots were sent, received and published
C33_Witness ==
    /\ cpc[1] = "returned"
    /\ \E w \in Watchers : wpc[w] = "done" /\ ~wlate[w]
    /\ sent = 2
    /\ Len(received) = 2
    /\ \A i \in 1..2 : WatcherUpdates(i) /= {}

(***************************************************************************)
(* C34.  The watcher publishes follow the order in which the snapshots     *)
(* were put on the queue: the n-th watcher publish is the one of the n-th  *)
(* snapshot received.  With the two watchers of two Builds (C3) the        *)
(* watcher that received the later snapshot can take the lock first.       *)
(***************************************************************************)
C34_PublishesInQueueOrder ==
    \A j \in 1..Len(updates) :
        updates[j].by /= 0 =>
            /\ updates[j].of = Cardinality({i \in 1..j : updates[i].by /= 0})
            /\ updates[j].from = received[updates[j].of].snap

(***************************************************************************)
(* C35.  Whenever the queue is empty and the watcher is idle, after a      *)
(* Build succeeded and at least one snapshot was delivered, the published  *)
(* connection set is the rendezvous subset of the most recent snapshot the *)
(* Notifier delivered.  After a second Build the last publish can be the   *)
(* raw list of that Build or the subset of an older snapshot (C3).         *)
(***************************************************************************)
C35_PublishedIsSubsetOfLatestSnapshot ==
    (/\ Running
     /\ Quiet
     /\ sent >= 1
     /\ \E i \in 1..Len(discovered) : discovered[i].err = "nil")
        => /\ updates /= <<>>
           /\ updates[Len(updates)].addrs =
                 generateAddresses(
                     rendezvousHash(members, salt, Reset, connectionPerHost).out)

(***************************************************************************)
(* C36.  Every set a watcher publishes is made of addresses of the         *)
(* snapshot it was computed from, holds no address twice (the snapshots'   *)
(* addresses being unique) and holds no empty or placeholder address.      *)
(***************************************************************************)
C36_PublishedWithinSnapshot ==
    \A j \in 1..Len(updates) :
        updates[j].by /= 0 =>
            LET addrs == [n \in 1..Len(updates[j].addrs) |->
                             updates[j].addrs[n].Addr]
            IN  /\ Range(addrs) \subseteq Range(updates[j].from)
                /\ Cardinality(Range(addrs)) = Len(addrs)
                /\ \A n \in 1..Len(addrs) : addrs[n] /= ""

\* a watcher has published one address of a snapshot of two
C36_Witness ==
    \E j \in 1..Len(updates) :
        /\ updates[j].by /= 0
        /\ Len(updates[j].from) = 2
        /\ Len(updates[j].addrs) = 1

(***************************************************************************)
(* C37.  A Build that fails with a Discoverer error leaves the Resolver's  *)
(* state unchanged: every watcher publish goes to the connection handle of *)
(* a Build that succeeded.  Build assigns r.cc before it calls Instances(),*)
(* so after a failed Build the watcher publishes to that Build's handle.   *)
(***************************************************************************)
C37_PublishesToHandleOfSuccessfulBuild ==
    \A j \in 1..Len(updates) :
        updates[j].by /= 0 => discovered[updates[j].cc].err = "nil"

(***************************************************************************)
(* C38.  The queue is registered with the Notifier once, at construction,  *)
(* and unregistered by Close(): it is registered until a Close call has    *)
(* started, never after, and the only step that changes the registration   *)
(* is the first step of a Close call, which ends it.                       *)
(***************************************************************************)
C38_RegisteredFromNewUntilClose ==
    /\ [](registered <=> \A c \in Closers : cpc[c] = "idle")
    /\ [][registered' /= registered =>
             /\ registered
             /\ \E c \in Closers : cpc[c] = "idle" /\ cpc'[c] /= "idle"
             /\ bpc' = bpc
             /\ wpc' = wpc
             /\ nows' = nows]_vars

\* after Close has returned a Build has started a watcher and ResolveNow was
\* called, and the queue is not registered
C38_Witness ==
    /\ cpc[1] = "returned"
    /\ \E w \in Watchers : wpc[w] /= None /\ wlate[w]
    /\ nows >= 1
    /\ ~registered

====
